---- MODULE Spec2Model ----
(***************************************************************************)
(* Doc tracker (src/index.js): an Express application over three Postgres  *)
(* tables (docs_reviews, docs_issues, docs_gaps) behind a shared-secret    *)
(* auth gate.  One action per route handler; a handler's whole effect      *)
(* (auth gate, the SQL statement, the response) is one step.               *)
(***************************************************************************)
EXTENDS Integers, Sequences, FiniteSets, TLC

VARIABLES
    APP_TOKEN,     \* the configured secret (process.env.APP_TOKEN), a string of characters
    phase,         \* "setup" | "ready" | "listening" | "failed" | "crashed"
    created,       \* the tables setupDb has created so far, in order
    docs_reviews,  \* table: set of review rows
    docs_issues,   \* table: set of issue rows
    docs_gaps,     \* table: set of gap rows
    nextval,       \* the three SERIAL sequences: table name -> next id
    now,           \* the database clock read by NOW()
    jar,           \* the browser's cookie jar: the app_token cookie GET /auth set
    req,           \* the request being answered (NoReq when idle)
    res,           \* its response
    pre            \* the three tables as they were when the request arrived

vars == <<APP_TOKEN, phase, created, docs_reviews, docs_issues, docs_gaps,
          nextval, now, jar, req, res, pre>>

(***************************************************************************)
(* Bounds of the model.                                                    *)
(***************************************************************************)
MaxInserts == 2    \* INSERT statements issued over a run, all tables together
MaxAuthInserts == 1 \* the same, in the runs that vary the credentials
MaxClock == 1      \* the clock runs 0..MaxClock
MaxTokenLen == 2   \* tokens and secrets have at most this many characters

(***************************************************************************)
(* Values.  A JSON / SQL value is a record: t is "null", "str" or "num";   *)
(* for a string, v names its text up to trailing spaces, len is its length *)
(* and sp the number of trailing spaces; a number carries its decimal      *)
(* text in v.  Two strings are equal iff the records are.                  *)
(***************************************************************************)
Null == [t |-> "null", v |-> "", len |-> 0, sp |-> 0]
Str(s) == [t |-> "str", v |-> s, len |-> Len(s), sp |-> 0]
Num(s) == [t |-> "num", v |-> s, len |-> Len(s), sp |-> 0]
Padded(s, n) == [t |-> "str", v |-> s, len |-> Len(s) + n, sp |-> n]

\* a timestamp column holds <<t>> or, when NULL, <<>>
NoTs == <<>>
Ts(t) == <<t>>

\* node-postgres binds a parameter: null/undefined -> NULL, anything else -> its text
prepareValue(x) == IF x.t = "num" THEN [x EXCEPT !.t = "str"] ELSE x

\* VARCHAR(w) assignment: a longer string is an error unless the excess is all spaces,
\* and then it is truncated to w.  TEXT has no limit (w = 0 here).
Fits(x, w) == x.t = "null" \/ w = 0 \/ x.len - x.sp <= w
Stored(x, w) ==
    IF x.t = "null" \/ w = 0 \/ x.len <= w THEN x
    ELSE [x EXCEPT !.len = w, !.sp = x.sp - (x.len - w)]

(***************************************************************************)
(* Character strings (headers, tokens) are sequences of one-character      *)
(* strings, so that the cookie parser can be modelled as it works.         *)
(***************************************************************************)
RECURSIVE Split(_, _)
\* String.prototype.split(sep) for a one-character separator
Split(s, sep) ==
    IF \A i \in 1..Len(s) : s[i] # sep THEN <<s>>
    ELSE LET k == CHOOSE i \in 1..Len(s) : s[i] = sep /\ \A j \in 1..(i - 1) : s[j] # sep
         IN <<SubSeq(s, 1, k - 1)>> \o Split(SubSeq(s, k + 1, Len(s)), sep)

\* String.prototype.trim()
Trim(s) ==
    LET Keep == {i \in 1..Len(s) : s[i] # " "}
    IN IF Keep = {} THEN <<>>
       ELSE LET lo == CHOOSE i \in Keep : \A j \in Keep : i <= j
                hi == CHOOSE i \in Keep : \A j \in Keep : j <= i
            IN SubSeq(s, lo, hi)

StartsWith(s, p) == Len(s) >= Len(p) /\ SubSeq(s, 1, Len(p)) = p
Slice(s, n) == SubSeq(s, n + 1, Len(s))

BearerPrefix == <<"B", "e", "a", "r", "e", "r", " ">>
CookieName == <<"a", "p", "p", "_", "t", "o", "k", "e", "n">>

\* a header is present with a text, or absent
Absent == [present |-> FALSE, text |-> <<>>]
Header(s) == [present |-> TRUE, text |-> s]

\* the cookie parser middleware: req.cookies as a sequence of [name, defined, value],
\* one per ';' segment in order; a later segment of the same name overwrites
CookiePairs(h) ==
    IF ~h.present \/ h.text = <<>> THEN <<>>
    ELSE LET segs == Split(h.text, ";")
         IN [i \in 1..Len(segs) |->
                LET parts == Split(Trim(segs[i]), "=")
                IN [name |-> parts[1],
                    defined |-> Len(parts) >= 2,
                    value |-> IF Len(parts) >= 2 THEN parts[2] ELSE <<>>]]

\* req.cookies[name] after the middleware: the last assignment to that key wins
CookieLookup(h, name) ==
    LET ps == CookiePairs(h)
        hits == {i \in 1..Len(ps) : ps[i].name = name}
    IN IF hits = {} THEN [defined |-> FALSE, value |-> <<>>]
       ELSE LET last == CHOOSE i \in hits : \A j \in hits : j <= i
            IN [defined |-> ps[last].defined, value |-> ps[last].value]

\* requireAuth: TRUE iff next() is called
requireAuth(r) ==
    \/ /\ r.authorization.present
       /\ r.authorization.text # <<>>
       /\ StartsWith(r.authorization.text, BearerPrefix)
       /\ Slice(r.authorization.text, 7) = APP_TOKEN
    \/ LET c == CookieLookup(r.cookie, CookieName)
       IN c.defined /\ c.value = APP_TOKEN

(***************************************************************************)
(* The schema setupDb creates: per column, the VARCHAR width (0 for TEXT)  *)
(* and whether it is NOT NULL.                                             *)
(***************************************************************************)
Col(w, nn) == [w |-> w, notnull |-> nn]

ReviewsSchema ==
    [doc_slug |-> Col(255, TRUE), doc_title |-> Col(500, FALSE), notes |-> Col(0, FALSE)]

IssuesSchema ==
    [doc_slug |-> Col(255, FALSE), doc_title |-> Col(500, FALSE),
     issue_type |-> Col(50, TRUE), description |-> Col(0, TRUE),
     suggested_fix |-> Col(0, FALSE), status |-> Col(20, FALSE),
     resolution_notes |-> Col(0, FALSE)]

GapsSchema ==
    [ticket_id |-> Col(100, FALSE), ticket_subject |-> Col(500, FALSE),
     description |-> Col(0, TRUE), suggested_doc |-> Col(255, FALSE),
     status |-> Col(20, FALSE), doc_created_slug |-> Col(255, FALSE)]

TableNames == <<"docs_reviews", "docs_issues", "docs_gaps">>

\* the statement's parameters satisfy the columns' constraints
Accepts(schema, p) ==
    \A c \in DOMAIN p : (schema[c].notnull => p[c].t # "null") /\ Fits(p[c], schema[c].w)

\* the values the columns then hold
Assign(schema, p) == [c \in DOMAIN p |-> Stored(p[c], schema[c].w)]

\* every parameter bound the way the driver binds it
Bind(b, cols) == [c \in cols |-> prepareValue(b[c])]

(***************************************************************************)
(* Query results.                                                          *)
(***************************************************************************)
\* (mutant) ORDER BY <key> ASC
OrderByAsc(S, key) ==
    LET n == Cardinality(S)
    IN {f \in [1..n -> S] :
          /\ \A i, j \in 1..n : i # j => f[i] # f[j]
          /\ \A i, j \in 1..n : i < j => f[i][key][1] <= f[j][key][1]}

\* ORDER BY <key> DESC: every order of the rows that is descending in key
\* (rows with equal keys come in either order)
OrderByDesc(S, key) ==
    LET n == Cardinality(S)
    IN {f \in [1..n -> S] :
          /\ \A i, j \in 1..n : i # j => f[i] # f[j]
          /\ \A i, j \in 1..n : i < j => f[i][key][1] >= f[j][key][1]}

\* WHERE <col> = $1: SQL equality, never true of NULL
WhereEq(S, col, p) == {r \in S : r[col].t # "null" /\ p.t # "null" /\ r[col] = p}

\* SELECT status, COUNT(*) ... GROUP BY status: one group per status, NULL a group of its own
GroupByStatus(S) ==
    {[status |-> s, count |-> Cardinality({r \in S : r.status = s})] : s \in {r.status : r \in S}}

\* the key a group's status becomes in a JavaScript object: String(status)
KeyOf(s) == IF s.t = "null" THEN Str("null") ELSE s

\* rows.reduce((acc, r) => ({...acc, [r.status]: parseInt(r.count)}), {}): groups come
\* in any order; of two groups with the same key the later one stays
Reduce(groups) ==
    LET keys == {KeyOf(g.status) : g \in groups}
        counts == {g.count : g \in groups}
    IN {f \in [keys -> counts] :
          \A k \in keys : \E g \in groups : KeyOf(g.status) = k /\ f[k] = g.count}

\* SELECT COUNT(*), MAX(reviewed_at) FROM docs_reviews
MaxReviewedAt(S) ==
    IF S = {} THEN NoTs
    ELSE (CHOOSE r \in S : \A q \in S : q.reviewed_at[1] <= r.reviewed_at[1]).reviewed_at

(***************************************************************************)
(* Requests and responses.                                                 *)
(***************************************************************************)
NoBody == [none |-> Null]
NoId == [int |-> FALSE, n |-> 0]

Request(route, c, body, id, text) ==
    [route |-> route, authorization |-> c.authorization, cookie |-> c.cookie,
     body |-> body, id |-> id, text |-> text, token |-> Absent]

NoReq == Request("none", [authorization |-> Absent, cookie |-> Absent], NoBody, NoId, Null)

NoStats == [issues |-> [k \in {} |-> 0], gaps |-> [k \in {} |-> 0],
            total |-> 0, last_review |-> NoTs]

Response(status, kind, handled, statements, rows, stats) ==
    [status |-> status, kind |-> kind, handled |-> handled, statements |-> statements,
     rows |-> rows, stats |-> stats]

NoRes == Response(0, "none", FALSE, 0, <<>>, NoStats)

\* res.status(401).json({error: 'Unauthorized'}): the handler is not invoked
Unauthorized == Response(401, "unauthorized", FALSE, 0, <<>>, NoStats)

\* res.json(rows)
JsonRows(rows) == Response(200, "rows", TRUE, 1, rows, NoStats)
\* res.json(row); res.json(undefined) and res.json(null) when there is none
JsonRow(row) == Response(200, "row", TRUE, 1, <<row>>, NoStats)
JsonUndefined == Response(200, "undefined", TRUE, 1, <<>>, NoStats)
JsonNull == Response(200, "null", TRUE, 1, <<>>, NoStats)

Snapshot == [reviews |-> docs_reviews, issues |-> docs_issues, gaps |-> docs_gaps]
NoSnapshot == [reviews |-> {}, issues |-> {}, gaps |-> {}]

Idle == phase = "listening" /\ req.route = "none"

InsertsIssued == nextval["docs_reviews"] + nextval["docs_issues"] + nextval["docs_gaps"] - 3

\* NOW(): the clock may have advanced since the last statement
Clock == {t \in now..(now + 1) : t <= MaxClock}

\* the gate turned the request away: nothing reaches the database
Reject(r) ==
    /\ req' = r
    /\ res' = Unauthorized
    /\ pre' = Snapshot
    /\ UNCHANGED <<APP_TOKEN, phase, created, docs_reviews, docs_issues, docs_gaps,
                   nextval, now, jar>>

\* a statement the database refuses rejects the handler's promise: depending on the
\* Express and Node versions the client gets a 500, or no response at all with the
\* process either living on or exiting on the unhandled rejection
QueryFails(r) ==
    /\ req' = r
    /\ pre' = Snapshot
    /\ \E o \in {"500", "hang", "exit"} :
          /\ res' = Response(IF o = "500" THEN 500 ELSE 0, "error", TRUE, 1, <<>>, NoStats)
          /\ phase' = IF o = "exit" THEN "crashed" ELSE "listening"
    /\ UNCHANGED <<APP_TOKEN, created, docs_reviews, docs_issues, docs_gaps, now, jar>>

\* a handler that only reads
Reads(r, response) ==
    /\ req' = r
    /\ res' = response
    /\ pre' = Snapshot
    /\ UNCHANGED <<APP_TOKEN, phase, created, docs_reviews, docs_issues, docs_gaps,
                   nextval, now, jar>>

(***************************************************************************)
(* Startup: setupDb() creates the three tables one after the other, and    *)
(* only its fulfilment runs app.listen.                                    *)
(***************************************************************************)
\* one CREATE TABLE IF NOT EXISTS of setupDb: it succeeds, or it throws and setupDb rejects
CreateTable ==
    /\ phase = "setup"
    /\ Len(created) < Len(TableNames)
    /\ \E ok \in BOOLEAN :
          IF ok THEN /\ created' = Append(created, TableNames[Len(created) + 1])
                     /\ phase' = IF Len(created') = Len(TableNames) THEN "ready" ELSE "setup"
          ELSE /\ phase' = "failed"
               /\ UNCHANGED created
    /\ UNCHANGED <<APP_TOKEN, docs_reviews, docs_issues, docs_gaps, nextval, now, jar,
                   req, res, pre>>

\* (mutant) app.listen is called without waiting for setupDb
ListenAtOnce ==
    /\ phase \in {"setup", "ready"}
    /\ phase' = "listening"
    /\ UNCHANGED <<APP_TOKEN, created, docs_reviews, docs_issues, docs_gaps, nextval, now,
                   jar, req, res, pre>>

\* setupDb().then(() => app.listen(PORT, ...))
Listen ==
    /\ phase = "ready"
    /\ phase' = "listening"
    /\ UNCHANGED <<APP_TOKEN, created, docs_reviews, docs_issues, docs_gaps, nextval, now,
                   jar, req, res, pre>>

\* the response has gone out; the server waits for the next request
Respond ==
    /\ phase = "listening"
    /\ req.route # "none"
    /\ req' = NoReq
    /\ res' = NoRes
    /\ pre' = NoSnapshot
    /\ UNCHANGED <<APP_TOKEN, phase, created, docs_reviews, docs_issues, docs_gaps,
                   nextval, now, jar>>

(***************************************************************************)
(* Reviews.                                                                *)
(***************************************************************************)
\* GET /api/reviews
GetReviews(c) ==
    LET r == Request("GET /api/reviews", c, NoBody, NoId, Null)
    IN /\ Idle
       /\ IF ~requireAuth(r) THEN Reject(r)
          ELSE \E rows \in OrderByDesc(docs_reviews, "reviewed_at") : Reads(r, JsonRows(rows))

\* (mutant) the parameter array lists doc_title before doc_slug
ReviewParamsSwapped(b) ==
    [doc_slug |-> prepareValue(b.doc_title), doc_title |-> prepareValue(b.doc_slug),
     notes |-> prepareValue(b.notes)]

\* the parameters [doc_slug, doc_title, notes] of the INSERT, as bound to $1, $2, $3
ReviewParams(b) == Bind(b, {"doc_slug", "doc_title", "notes"})

\* POST /api/reviews
PostReviews(c, b) ==
    LET r == Request("POST /api/reviews", c, b, NoId, Null)
        p == ReviewParams(b)
    IN /\ Idle
       /\ IF ~requireAuth(r) THEN Reject(r)
          ELSE /\ nextval' = [nextval EXCEPT !["docs_reviews"] = @ + 1]
               /\ IF ~Accepts(ReviewsSchema, p) THEN QueryFails(r)
                  ELSE \E t \in Clock :
                         LET row == [id |-> nextval["docs_reviews"], reviewed_at |-> Ts(t)]
                                    @@ Assign(ReviewsSchema, p)
                         IN /\ docs_reviews' = docs_reviews \cup {row}
                            /\ now' = t
                            /\ req' = r
                            /\ res' = JsonRow(row)
                            /\ pre' = Snapshot
                            /\ UNCHANGED <<APP_TOKEN, phase, created, docs_issues,
                                           docs_gaps, jar>>

\* GET /api/reviews/:slug
GetReviewBySlug(c, slug) ==
    LET r == Request("GET /api/reviews/:slug", c, NoBody, NoId, slug)
        hits == WhereEq(docs_reviews, "doc_slug", prepareValue(slug))
    IN /\ Idle
       /\ IF ~requireAuth(r) THEN Reject(r)
          ELSE \E rows \in OrderByDesc(hits, "reviewed_at") :
                  Reads(r, IF rows = <<>> THEN JsonNull ELSE JsonRow(rows[1]))

(***************************************************************************)
(* Issues.                                                                 *)
(***************************************************************************)
\* (mutant) the UPDATE has no WHERE clause
MatchingAll(S, id) == S

\* WHERE id = $3
Matching(S, id) == {row \in S : row.id = id.n}

\* req.query.status || 'open': a missing or empty parameter gives the default
StatusFilter(q) == IF q.t = "null" \/ q.len = 0 THEN Str("open") ELSE q

\* (mutant) 'all' is treated as a status like any other
SelectNoAll(S, status) == WhereEq(S, "status", prepareValue(status))

\* the rows a list query selects for the filter
Select(S, status) == IF status = Str("all") THEN S ELSE WhereEq(S, "status", prepareValue(status))

\* GET /api/issues?status=
GetIssues(c, q) ==
    LET r == Request("GET /api/issues", c, NoBody, NoId, q)
    IN /\ Idle
       /\ IF ~requireAuth(r) THEN Reject(r)
          ELSE \E rows \in OrderByDesc(Select(docs_issues, StatusFilter(q)), "created_at") :
                  Reads(r, JsonRows(rows))

\* the columns POST /api/issues takes from the body
IssueFields == {"doc_slug", "doc_title", "issue_type", "description", "suggested_fix"}

\* (mutant) the INSERT takes the status from the request body when it gives one
NewIssueStatusFromBody(id, b, t) ==
    [id |-> id, status |-> IF b.status.t = "null" THEN Str("open") ELSE prepareValue(b.status),
     resolution_notes |-> Null, created_at |-> Ts(t), resolved_at |-> NoTs]
    @@ Assign(IssuesSchema, Bind(b, IssueFields))

\* the row INSERT INTO docs_issues ... VALUES ($1..$5, 'open', NOW()) makes
NewIssue(id, b, t) ==
    [id |-> id, status |-> Str("open"), resolution_notes |-> Null,
     created_at |-> Ts(t), resolved_at |-> NoTs]
    @@ Assign(IssuesSchema, Bind(b, IssueFields))

\* POST /api/issues
PostIssues(c, b) ==
    LET r == Request("POST /api/issues", c, b, NoId, Null)
        p == Bind(b, IssueFields)
    IN /\ Idle
       /\ IF ~requireAuth(r) THEN Reject(r)
          ELSE /\ nextval' = [nextval EXCEPT !["docs_issues"] = @ + 1]
               /\ IF ~Accepts(IssuesSchema, p) THEN QueryFails(r)
                  ELSE \E t \in Clock :
                         LET row == NewIssue(nextval["docs_issues"], b, t)
                         IN /\ docs_issues' = docs_issues \cup {row}
                            /\ now' = t
                            /\ req' = r
                            /\ res' = JsonRow(row)
                            /\ pre' = Snapshot
                            /\ UNCHANGED <<APP_TOKEN, phase, created, docs_reviews,
                                           docs_gaps, jar>>

\* (mutant) only 'resolved' stamps the row
ResolvedAtResolvedOnly(status, t) == IF status = Str("resolved") THEN Ts(t) ELSE NoTs

\* (status === 'resolved' || status === 'dismissed') ? 'NOW()' : 'NULL'
ResolvedAt(status, t) ==
    IF status = Str("resolved") \/ status = Str("dismissed") THEN Ts(t) ELSE NoTs

\* UPDATE docs_issues SET status = $1, resolution_notes = $2, resolved_at = ... on one row
UpdateIssue(row, p, status, t) ==
    [row EXCEPT !.status = Stored(p.status, IssuesSchema.status.w),
                !.resolution_notes = p.resolution_notes,
                !.resolved_at = ResolvedAt(status, t)]

\* PATCH /api/issues/:id
PatchIssue(c, id, b) ==
    LET r == Request("PATCH /api/issues/:id", c, b, id, Null)
        p == Bind(b, {"status", "resolution_notes"})
        hits == Matching(docs_issues, id)
    IN /\ Idle
       /\ IF ~requireAuth(r) THEN Reject(r)
          ELSE IF ~id.int \/ ~Accepts(IssuesSchema, p)
               THEN QueryFails(r) /\ UNCHANGED nextval
          ELSE \E t \in Clock :
                 LET upd == {UpdateIssue(row, p, b.status, t) : row \in hits}
                 IN /\ docs_issues' = (docs_issues \ hits) \cup upd
                    /\ now' = t
                    /\ req' = r
                    /\ res' = IF upd = {} THEN JsonUndefined
                              ELSE JsonRow(CHOOSE row \in upd : TRUE)
                    /\ pre' = Snapshot
                    /\ UNCHANGED <<APP_TOKEN, phase, created, docs_reviews, docs_gaps,
                                   nextval, jar>>

(***************************************************************************)
(* Gaps.                                                                   *)
(***************************************************************************)
\* GET /api/gaps?status=
GetGaps(c, q) ==
    LET r == Request("GET /api/gaps", c, NoBody, NoId, q)
    IN /\ Idle
       /\ IF ~requireAuth(r) THEN Reject(r)
          ELSE \E rows \in OrderByDesc(Select(docs_gaps, StatusFilter(q)), "created_at") :
                  Reads(r, JsonRows(rows))

\* the columns POST /api/gaps takes from the body
GapFields == {"ticket_id", "ticket_subject", "description", "suggested_doc"}

\* the row INSERT INTO docs_gaps ... VALUES ($1..$4, 'open', NOW()) makes
NewGap(id, b, t) ==
    [id |-> id, status |-> Str("open"), doc_created_slug |-> Null, created_at |-> Ts(t)]
    @@ Assign(GapsSchema, Bind(b, GapFields))

\* POST /api/gaps
PostGaps(c, b) ==
    LET r == Request("POST /api/gaps", c, b, NoId, Null)
        p == Bind(b, GapFields)
    IN /\ Idle
       /\ IF ~requireAuth(r) THEN Reject(r)
          ELSE /\ nextval' = [nextval EXCEPT !["docs_gaps"] = @ + 1]
               /\ IF ~Accepts(GapsSchema, p) THEN QueryFails(r)
                  ELSE \E t \in Clock :
                         LET row == NewGap(nextval["docs_gaps"], b, t)
                         IN /\ docs_gaps' = docs_gaps \cup {row}
                            /\ now' = t
                            /\ req' = r
                            /\ res' = JsonRow(row)
                            /\ pre' = Snapshot
                            /\ UNCHANGED <<APP_TOKEN, phase, created, docs_reviews,
                                           docs_issues, jar>>

\* UPDATE docs_gaps SET status = $1, doc_created_slug = $2 on one row
UpdateGap(row, p) ==
    [row EXCEPT !.status = Stored(p.status, GapsSchema.status.w),
                !.doc_created_slug = Stored(p.doc_created_slug, GapsSchema.doc_created_slug.w)]

\* PATCH /api/gaps/:id
PatchGap(c, id, b) ==
    LET r == Request("PATCH /api/gaps/:id", c, b, id, Null)
        p == Bind(b, {"status", "doc_created_slug"})
        hits == Matching(docs_gaps, id)
    IN /\ Idle
       /\ IF ~requireAuth(r) THEN Reject(r)
          ELSE IF ~id.int \/ ~Accepts(GapsSchema, p)
               THEN QueryFails(r) /\ UNCHANGED nextval
          ELSE LET upd == {UpdateGap(row, p) : row \in hits}
               IN /\ docs_gaps' = (docs_gaps \ hits) \cup upd
                  /\ req' = r
                  /\ res' = IF upd = {} THEN JsonUndefined
                            ELSE JsonRow(CHOOSE row \in upd : TRUE)
                  /\ pre' = Snapshot
                  /\ UNCHANGED <<APP_TOKEN, phase, created, docs_reviews, docs_issues,
                                 nextval, now, jar>>

(***************************************************************************)
(* Stats and the UI root.                                                  *)
(***************************************************************************)
\* GET /api/stats
GetStats(c) ==
    LET r == Request("GET /api/stats", c, NoBody, NoId, Null)
    IN /\ Idle
       /\ IF ~requireAuth(r) THEN Reject(r)
          ELSE \E i \in Reduce(GroupByStatus(docs_issues)), g \in Reduce(GroupByStatus(docs_gaps)) :
                  Reads(r, Response(200, "stats", TRUE, 3, <<>>,
                                    [issues |-> i, gaps |-> g,
                                     total |-> Cardinality(docs_reviews),
                                     last_review |-> MaxReviewedAt(docs_reviews)]))

\* GET /
GetRoot(c) ==
    LET r == Request("GET /", c, NoBody, NoId, Null)
    IN /\ Idle
       /\ IF ~requireAuth(r) THEN Reject(r)
          ELSE Reads(r, Response(200, "file", TRUE, 0, <<>>, NoStats))

(***************************************************************************)
(* GET /auth and the browser that follows its redirect.                    *)
(***************************************************************************)
NoCredentials == [authorization |-> Absent, cookie |-> Absent]

\* what a browser keeps of Set-Cookie: app_token=<token>; Path=/; ...: the value runs
\* from the first '=' to the first ';', without surrounding spaces
BrowserStores(token) == Trim(Split(token, ";")[1])

\* GET /auth?token=
Auth(token) ==
    LET r == [Request("GET /auth", NoCredentials, NoBody, NoId, Null) EXCEPT !.token = token]
    IN /\ Idle
       /\ req' = r
       /\ pre' = Snapshot
       /\ IF token.present /\ token.text = APP_TOKEN
          THEN /\ res' = Response(302, "redirect", TRUE, 0, <<>>, NoStats)
               /\ jar' = [set |-> TRUE, value |-> BrowserStores(token.text)]
          ELSE /\ res' = Response(401, "invalid token", TRUE, 0, <<>>, NoStats)
               /\ UNCHANGED jar
       /\ UNCHANGED <<APP_TOKEN, phase, created, docs_reviews, docs_issues, docs_gaps,
                      nextval, now>>

\* the Cookie header the browser sends once it holds the cookie
BrowserCookie == Header(CookieName \o <<"=">> \o jar.value)

(***************************************************************************)
(* Inputs.                                                                 *)
(***************************************************************************)
TokenChars == {"s", "S", "="}
Tokens == UNION {[1..n -> TokenChars] : n \in 0..MaxTokenLen}
Secrets == {t \in Tokens : t # <<>> /\ t[1] = "s"}

Bearer(t) == [authorization |-> Header(BearerPrefix \o t), cookie |-> Absent]
Cookie(text) == [authorization |-> Absent, cookie |-> Header(text)]

\* every way the model presents a token: as a bearer credential, bare in the
\* Authorization header, as the app_token cookie alone or after another cookie,
\* as another cookie, and the browser's own cookie
Presentations ==
    {NoCredentials}
    \cup {Bearer(t) : t \in Tokens}
    \cup {[authorization |-> Header(APP_TOKEN), cookie |-> Absent]}
    \cup {Cookie(CookieName \o <<"=">> \o t) : t \in Tokens}
    \cup {Cookie(<<"x", "=", "1", ";", " ">> \o CookieName \o <<"=">> \o t) : t \in Tokens}
    \cup {Cookie(<<"x", "=">> \o APP_TOKEN)}
    \cup {Cookie(CookieName), Cookie(<<>>)}
    \cup (IF jar.set THEN {[authorization |-> Absent, cookie |-> BrowserCookie]} ELSE {})

Long(s, n) == [t |-> "str", v |-> s, len |-> n, sp |-> 0]

ReviewBody(slug, title, notes) == [doc_slug |-> slug, doc_title |-> title, notes |-> notes]
ReviewBodies ==
    {ReviewBody(Str("a"), Str("A"), Null),
     ReviewBody(Str("b"), Null, Str("n")),
     ReviewBody(Num("7"), Str("A"), Null),
     ReviewBody(Padded("a", 255), Null, Null),
     ReviewBody(Null, Str("A"), Null)}

PlainReviewBodies ==
    {ReviewBody(Str("a"), Str("A"), Null),
     ReviewBody(Str("b"), Null, Str("n")),
     ReviewBody(Null, Str("A"), Null)}

IssueBody(slug, type, descr, status) ==
    [doc_slug |-> slug, doc_title |-> Null, issue_type |-> type, description |-> descr,
     suggested_fix |-> Null, status |-> status]
IssueBodies ==
    {IssueBody(Str("a"), Str("typo"), Str("d"), Str("resolved")),
     IssueBody(Null, Num("3"), Str("d"), Null),
     IssueBody(Str("a"), Long("t", 51), Str("d"), Null),
     IssueBody(Str("a"), Str("typo"), Null, Str("open"))}

PlainIssueBodies ==
    {IssueBody(Str("a"), Str("typo"), Str("d"), Str("resolved")),
     IssueBody(Str("a"), Str("typo"), Null, Str("open"))}

GapBody(ticket, descr, doc, status) ==
    [ticket_id |-> ticket, ticket_subject |-> Null, description |-> descr,
     suggested_doc |-> doc, status |-> status]
GapBodies ==
    {GapBody(Str("T1"), Str("d"), Str("a"), Str("closed")),
     GapBody(Num("42"), Str("d"), Null, Null),
     GapBody(Str("T1"), Null, Null, Str("open"))}

PlainGapBodies ==
    {GapBody(Str("T1"), Str("d"), Str("a"), Str("closed")),
     GapBody(Str("T1"), Null, Null, Str("open"))}

IssuePatch(status, notes) == [status |-> status, resolution_notes |-> notes]
IssuePatches ==
    {IssuePatch(Str("resolved"), Str("fixed")),
     IssuePatch(Str("dismissed"), Null),
     IssuePatch(Str("open"), Null),
     IssuePatch(Str("null"), Null),
     IssuePatch(Null, Null)}

PlainIssuePatches ==
    {IssuePatch(Str("resolved"), Str("fixed")),
     IssuePatch(Str("open"), Null),
     IssuePatch(Null, Null)}

GapPatch(status, slug) == [status |-> status, doc_created_slug |-> slug]
GapPatches ==
    {GapPatch(Str("documented"), Str("a")),
     GapPatch(Str("open"), Null),
     GapPatch(Null, Null)}

\* path ids: the ids a sequence can have handed out, and one that is no integer
Ids == {[int |-> TRUE, n |-> n] : n \in 1..MaxInserts} \cup {NoId}

StatusQueries == {Null, Str(""), Str("all"), Str("open"), Str("resolved"), Str("documented")}
Slugs == {Str("a"), Str("b"), Str("c")}

(***************************************************************************)
(* The system.                                                             *)
(***************************************************************************)
InitWith(secrets) ==
    /\ APP_TOKEN \in secrets
    /\ phase = "setup"
    /\ created = <<>>
    /\ docs_reviews = {}
    /\ docs_issues = {}
    /\ docs_gaps = {}
    /\ nextval = [t \in {"docs_reviews", "docs_issues", "docs_gaps"} |-> 1]
    /\ now = 0
    /\ jar = [set |-> FALSE, value |-> <<>>]
    /\ req = NoReq
    /\ res = NoRes
    /\ pre = NoSnapshot

Init == InitWith({<<"s">>})

\* the whole application, every route with its plain inputs, for a client that
\* holds the secret
Next ==
    \/ CreateTable
    \/ Listen
    \/ Respond
    \/ GetReviews(Bearer(APP_TOKEN))
    \/ InsertsIssued < MaxInserts /\ \E b \in PlainReviewBodies : PostReviews(Bearer(APP_TOKEN), b)
    \/ \E slug \in Slugs : GetReviewBySlug(Bearer(APP_TOKEN), slug)
    \/ \E q \in StatusQueries : GetIssues(Bearer(APP_TOKEN), q)
    \/ InsertsIssued < MaxInserts /\ \E b \in PlainIssueBodies : PostIssues(Bearer(APP_TOKEN), b)
    \/ \E id \in Ids, b \in PlainIssuePatches : PatchIssue(Bearer(APP_TOKEN), id, b)
    \/ \E q \in StatusQueries : GetGaps(Bearer(APP_TOKEN), q)
    \/ InsertsIssued < MaxInserts /\ \E b \in PlainGapBodies : PostGaps(Bearer(APP_TOKEN), b)
    \/ \E id \in Ids, b \in GapPatches : PatchGap(Bearer(APP_TOKEN), id, b)
    \/ GetStats(Bearer(APP_TOKEN))
    \/ GetRoot(Bearer(APP_TOKEN))

Spec == Init /\ [][Next]_vars

\* the issue routes and the stats under every kind of status
NextIssues ==
    \/ CreateTable
    \/ Listen
    \/ Respond
    \/ \E q \in StatusQueries : GetIssues(Bearer(APP_TOKEN), q)
    \/ InsertsIssued < MaxInserts /\ \E b \in PlainIssueBodies : PostIssues(Bearer(APP_TOKEN), b)
    \/ \E id \in Ids, b \in IssuePatches : PatchIssue(Bearer(APP_TOKEN), id, b)
    \/ GetStats(Bearer(APP_TOKEN))

SpecIssues == Init /\ [][NextIssues]_vars

\* the three create routes under every kind of body value
NextCreate ==
    \/ CreateTable
    \/ Listen
    \/ Respond
    \/ InsertsIssued < MaxInserts /\ \E b \in ReviewBodies : PostReviews(Bearer(APP_TOKEN), b)
    \/ InsertsIssued < MaxInserts /\ \E b \in IssueBodies : PostIssues(Bearer(APP_TOKEN), b)
    \/ InsertsIssued < MaxInserts /\ \E b \in GapBodies : PostGaps(Bearer(APP_TOKEN), b)

SpecCreate == Init /\ [][NextCreate]_vars

\* the auth gate under every presentation of every token, each route with one input
InitAuth == InitWith(Secrets)

NextAuth ==
    \/ CreateTable
    \/ Listen
    \/ Respond
    \/ \E t \in Tokens : Auth(Header(t))
    \/ Auth(Absent)
    \/ \E c \in Presentations : GetReviews(c)
    \/ /\ InsertsIssued < MaxAuthInserts
       /\ \E c \in Presentations : PostReviews(c, ReviewBody(Str("a"), Str("A"), Null))
    \/ \E c \in Presentations : GetReviewBySlug(c, Str("a"))
    \/ \E c \in Presentations : GetIssues(c, Null)
    \/ /\ InsertsIssued < MaxAuthInserts
       /\ \E c \in Presentations :
             PostIssues(c, IssueBody(Str("a"), Str("typo"), Str("d"), Null))
    \/ \E c \in Presentations :
          PatchIssue(c, [int |-> TRUE, n |-> 1], IssuePatch(Str("resolved"), Null))
    \/ \E c \in Presentations : GetGaps(c, Null)
    \/ /\ InsertsIssued < MaxAuthInserts
       /\ \E c \in Presentations : PostGaps(c, GapBody(Str("T1"), Str("d"), Null, Null))
    \/ \E c \in Presentations :
          PatchGap(c, [int |-> TRUE, n |-> 1], GapPatch(Str("documented"), Str("a")))
    \/ \E c \in Presentations : GetStats(c)
    \/ \E c \in Presentations : GetRoot(c)

SpecAuth == InitAuth /\ [][NextAuth]_vars

(***************************************************************************)
(* Properties.                                                             *)
(***************************************************************************)
GatedRoutes ==
    {"GET /api/reviews", "POST /api/reviews", "GET /api/reviews/:slug",
     "GET /api/issues", "POST /api/issues", "PATCH /api/issues/:id",
     "GET /api/gaps", "POST /api/gaps", "PATCH /api/gaps/:id",
     "GET /api/stats", "GET /"}

\* what a request carries, read off the headers themselves: a bearer token is the text
\* after "Bearer "; a cookie's value is everything after the first '=' of its segment
CarriesBearer(r, t) ==
    /\ r.authorization.present
    /\ StartsWith(r.authorization.text, BearerPrefix)
    /\ Slice(r.authorization.text, 7) = t

CookieValues(h, name) ==
    IF ~h.present THEN {}
    ELSE LET segs == Split(h.text, ";")
         IN {Slice(Trim(segs[i]), Len(name) + 1) :
                i \in {j \in 1..Len(segs) : StartsWith(Trim(segs[j]), name \o <<"=">>)}}

CarriesCookie(r, t) == t \in CookieValues(r.cookie, CookieName)

TablesUntouched == Snapshot = pre

\* C1: a request to a gated route that carries neither "Bearer <secret>" nor an
\* app_token cookie equal to the secret is answered 401, reaches no handler, issues no
\* database statement and changes no table.
C1_Unauthenticated401 ==
    (/\ req.route \in GatedRoutes
     /\ ~CarriesBearer(req, APP_TOKEN)
     /\ ~CarriesCookie(req, APP_TOKEN))
    => (/\ res.status = 401
        /\ ~res.handled
        /\ res.statements = 0
        /\ TablesUntouched)

\* C2: for every secret, the secret is accepted as "Authorization: Bearer <secret>" and
\* as the app_token cookie (the one GET /auth set included), and every other token,
\* presented either way, is rejected.
C2_SecretAcceptedOthersRejected ==
    req.route \in GatedRoutes =>
        /\ req.authorization = Header(BearerPrefix \o APP_TOKEN) => res.handled
        /\ req.cookie = Header(CookieName \o <<"=">> \o APP_TOKEN) => res.handled
        /\ (jar.set /\ req.cookie = BrowserCookie) => res.handled
        /\ \A t \in Tokens \ {APP_TOKEN} :
              (\/ req = [req EXCEPT !.authorization = Header(BearerPrefix \o t),
                                    !.cookie = Absent]
               \/ req = [req EXCEPT !.authorization = Absent,
                                    !.cookie = Header(CookieName \o <<"=">> \o t)])
              => res.status = 401

Row == res.rows[1]
Created(route) == req.route = route /\ res.status = 200 /\ res.kind = "row"

\* C3: a successful POST /api/issues or POST /api/gaps persists exactly one new row,
\* which it returns, with status "open" whatever status the body gives; a new issue
\* has resolved_at null.
C3_CreateForcesOpen ==
    /\ Created("POST /api/issues") =>
          /\ docs_issues = pre.issues \cup {Row}
          /\ Row \notin pre.issues
          /\ Row.status = Str("open")
          /\ Row.resolved_at = NoTs
          /\ docs_gaps = pre.gaps /\ docs_reviews = pre.reviews
    /\ Created("POST /api/gaps") =>
          /\ docs_gaps = pre.gaps \cup {Row}
          /\ Row \notin pre.gaps
          /\ Row.status = Str("open")
          /\ docs_issues = pre.issues /\ docs_reviews = pre.reviews
    /\ (req.route \in {"POST /api/issues", "POST /api/gaps"} /\ res.status # 200)
          => TablesUntouched

C3_Witness ==
    /\ Created("POST /api/issues")
    /\ req.body.status = Str("resolved")
    /\ Row.status = Str("open")
    /\ pre.issues # {}

CreateRoutes == {"POST /api/reviews", "POST /api/issues", "POST /api/gaps"}

BodyFields(route) ==
    IF route = "POST /api/reviews" THEN {"doc_slug", "doc_title", "notes"}
    ELSE IF route = "POST /api/issues" THEN IssueFields
    ELSE GapFields

SchemaOf(route) ==
    IF route = "POST /api/reviews" THEN ReviewsSchema
    ELSE IF route = "POST /api/issues" THEN IssuesSchema
    ELSE GapsSchema

TableOf(route) ==
    IF route = "POST /api/reviews" THEN docs_reviews
    ELSE IF route = "POST /api/issues" THEN docs_issues
    ELSE docs_gaps

\* C8 as stated: every field the POST body accepts appears unchanged in the returned
\* row, which is the row persisted.
C8_RoundTrip ==
    \A route \in CreateRoutes :
        Created(route) =>
            /\ Row \in TableOf(route)
            /\ \A f \in BodyFields(route) : Row[f] = req.body[f]

\* C8, amended: the returned row is the row persisted, and in it a field the body gives
\* as a string no longer than its column is unchanged, a field the body leaves out is
\* null, and a field the body gives as a number is that number's text; the
\* columns the body cannot set (resolution_notes, doc_created_slug) are null.
C8_RoundTripOfText ==
    \A route \in CreateRoutes :
        Created(route) =>
            /\ Row \in TableOf(route)
            /\ \A f \in BodyFields(route) :
                  LET x == req.body[f]
                      w == SchemaOf(route)[f].w
                  IN /\ x.t = "null" => Row[f] = Null
                     /\ (x.t = "str" /\ (w = 0 \/ x.len <= w)) => Row[f] = x
                     /\ x.t = "num" => Row[f] = [x EXCEPT !.t = "str"]
            /\ route = "POST /api/issues" => Row.resolution_notes = Null
            /\ route = "POST /api/gaps" => Row.doc_created_slug = Null

C8_Witness ==
    /\ Created("POST /api/reviews")
    /\ req.body.doc_slug.t = "num"
    /\ req.body.doc_title = Str("A")
    /\ Row.doc_title = Str("A")
    /\ Row.doc_slug = Str("7")

\* C10: the server listens, and serves requests, only once all three tables have been
\* created; once a CREATE TABLE has failed nothing happens any more: the server never
\* listens and no request is served.
C10_ListenOnlyAfterSetup ==
    [][/\ phase' = "listening" => created' = TableNames
       /\ req'.route # "none" => (created' = TableNames /\ phase' \in {"listening", "crashed"})
       /\ phase # "failed"
       /\ phase' = "failed" => (req'.route = "none" /\ created' # TableNames)]_vars

C10_Witness ==
    /\ phase = "listening"
    /\ created = TableNames
    /\ req.route = "POST /api/reviews"
    /\ res.status = 200

Range(f) == {f[i] : i \in DOMAIN f}
Listed(route) == req.route = route /\ res.status = 200 /\ res.kind = "rows"

WithStatus(S, v) == {r \in S : r.status = v}

\* a list as the claim has it: any value other than "all" is an exact-match filter
ListsAsStated(route, S) ==
    Listed(route) =>
        /\ Len(res.rows) = Cardinality(Range(res.rows))
        /\ Range(res.rows) = IF req.text.t = "null" THEN WithStatus(S, Str("open"))
                             ELSE IF req.text = Str("all") THEN S
                             ELSE WithStatus(S, req.text)

\* C5 as stated: a list without a status parameter returns exactly the open rows, with
\* status=all every row, and with any other value v exactly the rows whose status is v.
C5_ListFilter ==
    /\ ListsAsStated("GET /api/issues", docs_issues)
    /\ ListsAsStated("GET /api/gaps", docs_gaps)

\* a list as the handler has it: an empty value counts as no parameter
ListsByFilter(route, S) ==
    Listed(route) =>
        /\ Len(res.rows) = Cardinality(Range(res.rows))
        /\ Range(res.rows) = IF req.text.t = "null" \/ req.text = Str("")
                             THEN WithStatus(S, Str("open"))
                             ELSE IF req.text = Str("all") THEN S
                             ELSE WithStatus(S, req.text)

\* C5, amended: a list without a status parameter, or with an empty one, returns exactly
\* the open rows, with status=all every row, and with any other non-empty string v
\* exactly the rows whose status is v (none, when no row has it).
C5_ListFilterNonEmpty ==
    /\ ListsByFilter("GET /api/issues", docs_issues)
    /\ ListsByFilter("GET /api/gaps", docs_gaps)

C5_Witness ==
    /\ Listed("GET /api/issues")
    /\ req.text = Str("")
    /\ Len(res.rows) = 1
    /\ Cardinality(docs_issues) = 2

\* C6: GET /api/reviews/:slug answers 200 with a review of that slug than which no
\* review of that slug is later, and with null when the slug has no review.
C6_LatestReview ==
    req.route = "GET /api/reviews/:slug" =>
        LET same == {r \in docs_reviews : r.doc_slug = req.text}
        IN /\ res.status = 200
           /\ same = {} => res.kind = "null"
           /\ same # {} =>
                 /\ res.kind = "row"
                 /\ Row \in same
                 /\ \A r \in same : r.reviewed_at[1] <= Row.reviewed_at[1]

C6_Witness ==
    /\ req.route = "GET /api/reviews/:slug"
    /\ res.kind = "row"
    /\ \E r \in docs_reviews : r.doc_slug = req.text /\ r.reviewed_at[1] < Row.reviewed_at[1]

\* the columns a PATCH may change
IssueMutable == {"status", "resolution_notes", "resolved_at"}
GapMutable == {"status", "doc_created_slug"}

SameOutside(r, q, cols) == \A f \in (DOMAIN r) \ cols : r[f] = q[f]

\* every row that was there still is, with its id and creation time
Kept(before, after, stamp) ==
    \A r \in before : \E q \in after : q.id = r.id /\ q[stamp] = r[stamp]

\* a PATCH changed at most the mutable columns of the row with the request's id
PatchedOnly(before, after, cols) ==
    /\ Cardinality(after) = Cardinality(before)
    /\ \A r \in before :
          IF req.id.int /\ r.id = req.id.n
          THEN \E q \in after : q.id = r.id /\ SameOutside(r, q, cols)
          ELSE r \in after

\* C9: no request removes a row or changes a row's id or creation time; a PATCH changes
\* only the mutable columns of the row with its id, leaves every other row and the two
\* other tables as they were, and changes nothing when no row has that id.
C9_Frame ==
    req.route # "none" =>
        /\ Kept(pre.reviews, docs_reviews, "reviewed_at")
        /\ Kept(pre.issues, docs_issues, "created_at")
        /\ Kept(pre.gaps, docs_gaps, "created_at")
        /\ req.route = "PATCH /api/issues/:id" =>
              /\ PatchedOnly(pre.issues, docs_issues, IssueMutable)
              /\ docs_reviews = pre.reviews /\ docs_gaps = pre.gaps
              /\ (\A r \in pre.issues : ~req.id.int \/ r.id # req.id.n) => TablesUntouched
        /\ req.route = "PATCH /api/gaps/:id" =>
              /\ PatchedOnly(pre.gaps, docs_gaps, GapMutable)
              /\ docs_reviews = pre.reviews /\ docs_issues = pre.issues
              /\ (\A r \in pre.gaps : ~req.id.int \/ r.id # req.id.n) => TablesUntouched

C9_Witness ==
    /\ req.route = "PATCH /api/issues/:id"
    /\ res.kind = "row"
    /\ Row \notin pre.issues
    /\ Cardinality(pre.issues) = 2

\* C4: an issue row has resolved_at set iff its status is exactly "resolved" or
\* "dismissed"; the row a PATCH returns is the row stored, stamped when the PATCH said
\* "resolved" and cleared again when a later PATCH says "open".
C4_ResolvedAtIffTerminal ==
    /\ \A r \in docs_issues :
          r.resolved_at # NoTs <=> r.status \in {Str("resolved"), Str("dismissed")}
    /\ (req.route = "PATCH /api/issues/:id" /\ res.kind = "row") =>
          /\ Row \in docs_issues
          /\ req.body.status = Str("resolved") => Row.resolved_at # NoTs
          /\ req.body.status = Str("open") => Row.resolved_at = NoTs

C4_Witness ==
    /\ req.route = "PATCH /api/issues/:id"
    /\ res.kind = "row"
    /\ req.body.status = Str("open")
    /\ Row.resolved_at = NoTs
    /\ \E r \in pre.issues : r.id = Row.id /\ r.status = Str("resolved") /\ r.resolved_at # NoTs

\* the keys an object has
Keys(f) == DOMAIN f

\* an object with one key per status that some row of S has (a NULL status under the
\* key it is rendered as), each with the number of rows of that status, and no other key
CountsByStatus(S, f) ==
    LET statuses == {r.status : r \in S}
    IN /\ Cardinality(Keys(f)) = Cardinality(statuses)
       /\ \A v \in statuses :
             KeyOf(v) \in Keys(f) /\ f[KeyOf(v)] = Cardinality(WithStatus(S, v))

\* C7: in the stats, issues and gaps each have one key per status that some row has,
\* with the number of rows of that status as its value, and no other key; total is the
\* number of reviews and last_review the latest reviewed_at (null when there is none).
C7_Stats ==
    (req.route = "GET /api/stats" /\ res.status = 200) =>
        /\ CountsByStatus(docs_issues, res.stats.issues)
        /\ CountsByStatus(docs_gaps, res.stats.gaps)
        /\ res.stats.total = Cardinality(docs_reviews)
        /\ res.stats.last_review = MaxReviewedAt(docs_reviews)

====
